---- MODULE Spec2Model ----
(***************************************************************************)
(* The experiment-sweep driver of zeno-build: several driver processes     *)
(* (examples/chatbot/main.py, chatbot_main) share one results directory    *)
(* and fill its cache entries through make_predictions                     *)
(* (examples/transcription/modeling.py).  The results directory is the     *)
(* only shared state; every process runs its statements one at a time and  *)
(* may terminate between any two of them.                                  *)
(*                                                                         *)
(* zeno_build.cache_utils (CacheLock, fail_cache, get_cache_path) and      *)
(* zeno_build.optimizers.exhaustive / zeno_build.experiments.search_space  *)
(* are imported by the sources but are not part of them: their behaviour   *)
(* is taken from spec.md sections 4.2 and 4.3.                             *)
(***************************************************************************)
EXTENDS Naturals, FiniteSets, Sequences, TLC

\* ------------------------------------------------------------- bounds
NumEntries == 3     \* assignments the search space enumerates
MaxCount == 2       \* the history counters saturate here
MaxSpaces == 2      \* experiments composed into one search space

\* The invocations of chatbot_main on the shared results directory.  An
\* invocation that takes its first step after the other has ended is a re-run
\* of the driver; two that interleave are concurrent sweep workers.
Procs == {"w1", "w2"}
\* The enumeration of my_space: assignment i is the i-th one enumerated, and
\* get_cache_path maps distinct assignments to distinct roots (section 4.2),
\* so an assignment, its fingerprint and its file_root are one index.
Entries == 1..NumEntries

None == "None"
NoParams == 0           \* get_parameters() returned None
NoFile == "NoFile"      \* os.path.exists(...) is False
Partial == "Partial"    \* the file was opened with "w" and nothing is written yet

\* What transcribe_audio can return, and what it can raise.
Preds == {"t1", "t2"}
BackendErrors == {"BackendError"}
JSONDecodeError == "JSONDecodeError"
ReadError == "StopIteration"

VARIABLES
    num_trials,     \* chatbot_config.num_trials, the trial budget (main.py:89)
    output,         \* file_root.json  : NoFile, Partial or the dumped predictions
    lock,           \* file_root lock marker present
    fail,           \* file_root failure marker: NoFile or the diagnostic
    metric,         \* predictions_dir/id.eval : NoFile, Partial or the written text
    pc,             \* the statement each process is at
    cursor,         \* the optimizer's internal cursor over the enumeration
    parameters,     \* main.py:94
    cache_lock,     \* modeling.py:26, what CacheLock.__enter__ returned
    predictions,    \* modeling.py:33 / main.py:98
    exc,            \* the exception in flight, or the one that ended the run
    results,        \* main.py:134, the reporting collection
    warned,         \* main.py:130-133 logged the warning
    calls,          \* history: backend invocations per entry
    writes,         \* history: open(file_root.json, "w") per entry
    returned,       \* history: the backend returned predictions for the entry
    snapshot,       \* history: the entries that were not absent when the run began
    args,           \* what chatbot_main is called with (main.py:25-35, 228-243)
    my_space,       \* main.py:54, the CompositeSearchSpace
    enumerated      \* the assignments my_space enumerates, in order

fs == <<output, lock, fail, metric>>
config == <<num_trials, args, my_space, enumerated>>
locals == <<cursor, parameters, cache_lock, predictions, exc, results, warned>>
hist == <<calls, writes, returned, snapshot>>
vars == <<num_trials, output, lock, fail, metric, pc, cursor, parameters, cache_lock,
          predictions, exc, results, warned, calls, writes, returned, snapshot,
          args, my_space, enumerated>>

Bump(n) == IF n < MaxCount THEN n + 1 ELSE n

\* ------------------------------------------------- cache_utils (spec 4.2)

\* traceback.format_exc(): the diagnostic text names the exception in flight.
format_exc(e) ==
    CASE e = "BackendError" -> "Traceback: BackendError"
      [] e = JSONDecodeError -> "Traceback: JSONDecodeError"
      [] OTHER -> "Traceback: NoneType"

\* Completed detection: strictly by presence of the output artifact.
Completed(e) == output[e] # NoFile
Failed(e) == fail[e] # NoFile
InProgress(e) == lock[e] /\ ~Completed(e) /\ ~Failed(e)
Absent(e) == ~Completed(e) /\ ~lock[e] /\ ~Failed(e)

\* A lock that expires with its creator: a stale marker does not refuse.
CacheLockHeld_live_only(e) ==
    \/ Failed(e)
    \/ lock[e] /\ \E p \in Procs : cache_lock[p] /\ parameters[p] = e

\* acquireLock: atomically create the marker unless the entry is already
\* claimed; a failed entry is excluded from re-attempt.
CacheLockHeld(e) == lock[e] \/ Failed(e)

\* ------------------------------------- search_space / optimizer (spec 4.3)

get_valid_param_files(include_in_progress) ==
    {e \in Entries : /\ ~Failed(e)
                     /\ \/ Completed(e)
                        \/ include_in_progress /\ lock[e]}

Untried(p) ==
    {e \in Entries : e >= cursor[p] /\ Absent(e)}

\* is_complete that ignores the trial budget.
is_complete_budget_ignored(p, include_in_progress) ==
    Untried(p) = {}

is_complete(p, include_in_progress) ==
    \/ Cardinality(get_valid_param_files(include_in_progress)) >= num_trials
    \/ Untried(p) = {}

Min(S) == CHOOSE x \in S : \A y \in S : x <= y

\* get_parameters that skips completed and failed entries but not the ones
\* another process holds in progress.
get_parameters_in_progress_not_skipped(p) ==
    LET left == {e \in Entries : e >= cursor[p] /\ ~Completed(e) /\ ~Failed(e)}
    IN  IF Cardinality(get_valid_param_files(TRUE)) >= num_trials \/ left = {}
        THEN NoParams
        ELSE Min(left)

\* get_parameters whose enumeration order differs from one optimizer
\* instance to the other.
get_parameters_order_per_instance(p) ==
    IF \/ Cardinality(get_valid_param_files(TRUE)) >= num_trials
       \/ Untried(p) = {}
    THEN NoParams
    ELSE IF p = "w1" THEN Min(Untried(p))
         ELSE CHOOSE x \in Untried(p) : \A y \in Untried(p) : x >= y

get_parameters(p) ==
    IF \/ Cardinality(get_valid_param_files(TRUE)) >= num_trials
       \/ Untried(p) = {}
    THEN NoParams
    ELSE Min(Untried(p))

\* reporting_utils.parameters_to_name(loaded_parameters, my_space): the
\* display name, here its rank in string order.  Distinct assignments have
\* distinct names, and the order of the names is not the enumeration order
\* (the even assignments sort before the odd ones).
parameters_to_name(e) == IF e % 2 = 1 THEN 2 * NumEntries + e ELSE e

calculate_metric(v) == IF v = "t1" THEN 1 ELSE 0

\* main.py:120  f"{eval_result}"  and  main.py:116  float(next(f).strip())
format_float(x) == IF x = 1 THEN "1.0" ELSE "0.0"
parse_float(t) == IF t = "1.0" THEN 1 ELSE 0

\* ------------------------------------------------------------ Init

\* Nothing is on disk and no invocation of chatbot_main has begun.
Idle ==
    /\ output = [e \in Entries |-> NoFile]
    /\ lock = [e \in Entries |-> FALSE]
    /\ fail = [e \in Entries |-> NoFile]
    /\ metric = [e \in Entries |-> NoFile]
    /\ pc = [p \in Procs |-> "main"]
    /\ cursor = [p \in Procs |-> 1]
    /\ parameters = [p \in Procs |-> NoParams]
    /\ cache_lock = [p \in Procs |-> FALSE]
    /\ predictions = [p \in Procs |-> None]
    /\ exc = [p \in Procs |-> None]
    /\ results = [p \in Procs |-> <<>>]
    /\ warned = [p \in Procs |-> FALSE]
    /\ calls = [e \in Entries |-> 0]
    /\ writes = [e \in Entries |-> 0]
    /\ returned = [e \in Entries |-> FALSE]
    /\ snapshot = [p \in Procs |-> {}]

\* The sweep: the search space is kept as the enumeration Entries, and
\* any trial budget from one to the size of the space is configured.
Init ==
    /\ num_trials \in 1..NumEntries
    /\ Idle
    /\ args = <<>> /\ my_space = <<>> /\ enumerated = <<>>

\* ------------------------------------------------- chatbot_main, the sweep

\* main.py:83-90  chatbot_main begins: do_prediction, a fresh optimizer
chatbot_main(p) ==
    /\ pc[p] = "main"
    /\ \E do_prediction \in BOOLEAN :
        pc' = [pc EXCEPT ![p] = IF do_prediction THEN "while" ELSE "visualize"]
    /\ cursor' = [cursor EXCEPT ![p] = 1]
    /\ snapshot' = [snapshot EXCEPT ![p] = {e \in Entries : ~Absent(e)}]
    /\ UNCHANGED <<fs, calls, writes, returned, parameters, cache_lock,
                   predictions, exc, results, warned>>
    /\ UNCHANGED config

\* The loop condition with include_in_progress=False.
while_is_complete_completed_only(p) ==
    /\ pc[p] = "while"
    /\ pc' = [pc EXCEPT ![p] = IF is_complete(p, FALSE) THEN "visualize"
                                                       ELSE "get_parameters"]
    /\ parameters' = [parameters EXCEPT ![p] = NoParams]
    /\ predictions' = [predictions EXCEPT ![p] = None]
    /\ UNCHANGED <<fs, hist, cursor, cache_lock, exc, results, warned>>
    /\ UNCHANGED config

\* main.py:92  while not optimizer.is_complete(predictions_dir, True)
\* (parameters and id_and_predictions of the last iteration are dead here:
\* both are assigned again, at main.py:94 and :98, before they are read)
while_is_complete(p) ==
    /\ pc[p] = "while"
    /\ pc' = [pc EXCEPT ![p] = IF is_complete(p, TRUE) THEN "visualize"
                                                      ELSE "get_parameters"]
    /\ parameters' = [parameters EXCEPT ![p] = NoParams]
    /\ predictions' = [predictions EXCEPT ![p] = None]
    /\ UNCHANGED <<fs, hist, cursor, cache_lock, exc, results, warned>>
    /\ UNCHANGED config

\* main.py:94-96  parameters = optimizer.get_parameters(); None -> break
driver_get_parameters(p) ==
    /\ pc[p] = "get_parameters"
    /\ LET got == get_parameters(p) IN
        /\ parameters' = [parameters EXCEPT ![p] = got]
        /\ cursor' = [cursor EXCEPT ![p] =
                        IF got = NoParams THEN NumEntries + 1 ELSE got + 1]
        /\ pc' = [pc EXCEPT ![p] = IF got = NoParams THEN "visualize"
                                                 ELSE "mp_check"]
    /\ UNCHANGED <<fs, hist, cache_lock, predictions, exc, results, warned>>
    /\ UNCHANGED config

\* ------------------------------------------- make_predictions (modeling.py)

\* What a process forgets when its run of chatbot_main ends.
Forget(p) ==
    /\ cursor' = [cursor EXCEPT ![p] = 1]
    /\ cache_lock' = [cache_lock EXCEPT ![p] = FALSE]
    /\ predictions' = [predictions EXCEPT ![p] = None]

\* An exception leaves chatbot_main, which has no handler.
Propagate(p, e) ==
    /\ pc' = [pc EXCEPT ![p] = "raised"]
    /\ exc' = [exc EXCEPT ![p] = e]
    /\ Forget(p)

\* modeling.py:21-24  load from cache if existing
mp_check(p) ==
    /\ pc[p] = "mp_check"
    /\ LET file_root == parameters[p] IN
        IF output[file_root] = NoFile
        THEN /\ pc' = [pc EXCEPT ![p] = "mp_enter"]
             /\ UNCHANGED <<cursor, cache_lock, predictions, exc>>
        ELSE IF output[file_root] = Partial
        THEN Propagate(p, JSONDecodeError)
        ELSE /\ predictions' = [predictions EXCEPT ![p] = output[file_root]]
             /\ pc' = [pc EXCEPT ![p] = "if_none"]
             /\ UNCHANGED <<cursor, cache_lock, exc>>
    /\ UNCHANGED <<fs, hist, parameters, results, warned>>
    /\ UNCHANGED config

\* mp_enter that waits for the lock instead of skipping.
mp_enter_waits(p) ==
    /\ pc[p] = "mp_enter"
    /\ ~CacheLockHeld(parameters[p])
    /\ lock' = [lock EXCEPT ![parameters[p]] = TRUE]
    /\ cache_lock' = [cache_lock EXCEPT ![p] = TRUE]
    /\ pc' = [pc EXCEPT ![p] = "mp_backend"]
    /\ UNCHANGED <<output, fail, metric, hist, cursor, parameters, predictions,
                   exc, results, warned>>
    /\ UNCHANGED config

\* mp_enter without lines 29-30: the work goes on though the lock was not
\* acquired.
mp_enter_no_skip(p) ==
    /\ pc[p] = "mp_enter"
    /\ LET file_root == parameters[p] IN
        IF CacheLockHeld(file_root)
        THEN UNCHANGED <<lock, cache_lock>>
        ELSE /\ lock' = [lock EXCEPT ![file_root] = TRUE]
             /\ cache_lock' = [cache_lock EXCEPT ![p] = TRUE]
    /\ pc' = [pc EXCEPT ![p] = "mp_backend"]
    /\ UNCHANGED <<output, fail, metric, hist, cursor, parameters, predictions,
                   exc, results, warned>>
    /\ UNCHANGED config

\* modeling.py:26-30  with CacheLock(file_root) as cache_lock; not held -> None
mp_enter(p) ==
    /\ pc[p] = "mp_enter"
    /\ LET file_root == parameters[p] IN
        IF CacheLockHeld(file_root)
        THEN /\ predictions' = [predictions EXCEPT ![p] = None]
             /\ pc' = [pc EXCEPT ![p] = "if_none"]
             /\ UNCHANGED <<lock, cache_lock>>
        ELSE /\ lock' = [lock EXCEPT ![file_root] = TRUE]
             /\ cache_lock' = [cache_lock EXCEPT ![p] = TRUE]
             /\ pc' = [pc EXCEPT ![p] = "mp_backend"]
             /\ UNCHANGED predictions
    /\ UNCHANGED <<output, fail, metric, hist, cursor, parameters, exc,
                   results, warned>>
    /\ UNCHANGED config

\* modeling.py:33-34  predictions = transcribe_audio(...), or it raises
mp_backend(p) ==
    /\ pc[p] = "mp_backend"
    /\ LET file_root == parameters[p] IN
        /\ calls' = [calls EXCEPT ![file_root] = Bump(@)]
        /\ \/ \E v \in Preds :
                /\ predictions' = [predictions EXCEPT ![p] = v]
                /\ returned' = [returned EXCEPT ![file_root] = TRUE]
                /\ pc' = [pc EXCEPT ![p] = "mp_open"]
                /\ UNCHANGED exc
           \/ \E e \in BackendErrors :
                /\ exc' = [exc EXCEPT ![p] = e]
                /\ pc' = [pc EXCEPT ![p] = "mp_except"]
                /\ UNCHANGED <<predictions, returned>>
    /\ UNCHANGED <<fs, writes, snapshot, cursor, parameters, cache_lock,
                   results, warned>>
    /\ UNCHANGED config

\* mp_except without line 36: the failure is re-raised but never recorded.
mp_except_not_recorded(p) ==
    /\ pc[p] = "mp_except"
    /\ pc' = [pc EXCEPT ![p] = "mp_raise"]
    /\ UNCHANGED <<fs, hist, locals>>
    /\ UNCHANGED config

\* modeling.py:35-36  tb = traceback.format_exc(); fail_cache(file_root, tb)
mp_except(p) ==
    /\ pc[p] = "mp_except"
    /\ fail' = [fail EXCEPT ![parameters[p]] = format_exc(exc[p])]
    /\ pc' = [pc EXCEPT ![p] = "mp_raise"]
    /\ UNCHANGED <<output, lock, metric, hist, locals>>
    /\ UNCHANGED config

\* mp_raise where the exception skips CacheLock.__exit__: the marker stays.
mp_raise_lock_kept(p) ==
    /\ pc[p] = "mp_raise"
    /\ Propagate(p, exc[p])
    /\ UNCHANGED <<fs, hist, parameters, results, warned>>
    /\ UNCHANGED config

\* modeling.py:37  raise: CacheLock.__exit__ the exception propagates
mp_raise(p) ==
    /\ pc[p] = "mp_raise"
    /\ lock' = [lock EXCEPT ![parameters[p]] = IF cache_lock[p] THEN FALSE ELSE @]
    /\ Propagate(p, exc[p])
    /\ UNCHANGED <<output, fail, metric, hist, parameters, results, warned>>
    /\ UNCHANGED config

\* modeling.py:40  open(f"{file_root}.json", "w") creates or truncates the file
mp_open(p) ==
    /\ pc[p] = "mp_open"
    /\ output' = [output EXCEPT ![parameters[p]] = Partial]
    /\ writes' = [writes EXCEPT ![parameters[p]] = Bump(@)]
    /\ pc' = [pc EXCEPT ![p] = "mp_dump"]
    /\ UNCHANGED <<lock, fail, metric, calls, returned, snapshot, locals>>
    /\ UNCHANGED config

\* modeling.py:41  json.dump(predictions, f) and the file is closed
mp_dump(p) ==
    /\ pc[p] = "mp_dump"
    /\ output' = [output EXCEPT ![parameters[p]] = predictions[p]]
    /\ pc' = [pc EXCEPT ![p] = "mp_exit"]
    /\ UNCHANGED <<lock, fail, metric, hist, locals>>
    /\ UNCHANGED config

\* modeling.py:26,43  the with block ends: CacheLock.__exit__, return predictions
mp_exit(p) ==
    /\ pc[p] = "mp_exit"
    /\ lock' = [lock EXCEPT ![parameters[p]] = IF cache_lock[p] THEN FALSE ELSE @]
    /\ cache_lock' = [cache_lock EXCEPT ![p] = FALSE]
    /\ pc' = [pc EXCEPT ![p] = "if_none"]
    /\ UNCHANGED <<output, fail, metric, hist, cursor, parameters,
                   predictions, exc, results, warned>>
    /\ UNCHANGED config

\* if_none without the test: a skipped call is scored like any other.
if_none_skip_scored(p) ==
    /\ pc[p] = "if_none"
    /\ pc' = [pc EXCEPT ![p] = "eval"]
    /\ UNCHANGED <<fs, hist, locals>>
    /\ UNCHANGED config

\* main.py:109-111  if id_and_predictions is None: continue
if_none(p) ==
    /\ pc[p] = "if_none"
    /\ pc' = [pc EXCEPT ![p] = IF predictions[p] = None THEN "while" ELSE "eval"]
    /\ UNCHANGED <<fs, hist, locals>>
    /\ UNCHANGED config

\* main.py:113-116  if the .eval file exists, read the evaluation result
eval(p) ==
    /\ pc[p] = "eval"
    /\ LET id == parameters[p] IN
        IF metric[id] = NoFile
        THEN /\ pc' = [pc EXCEPT ![p] = "eval_open"]
             /\ UNCHANGED <<cursor, cache_lock, predictions, exc>>
        ELSE IF metric[id] = Partial
        THEN Propagate(p, ReadError)
        ELSE /\ pc' = [pc EXCEPT ![p] = "while"]
             /\ UNCHANGED <<cursor, cache_lock, predictions, exc>>
    /\ UNCHANGED <<fs, hist, parameters, results, warned>>
    /\ UNCHANGED config

\* main.py:117-119  else: calculate_metric(...); open(f"{id}.eval", "w")
\* creates or truncates the file
eval_open(p) ==
    /\ pc[p] = "eval_open"
    /\ metric' = [metric EXCEPT ![parameters[p]] = Partial]
    /\ pc' = [pc EXCEPT ![p] = "eval_write"]
    /\ UNCHANGED <<output, lock, fail, hist, locals>>
    /\ UNCHANGED config

\* main.py:120  f.write(f"{eval_result}") and the file is closed
eval_write(p) ==
    /\ pc[p] = "eval_write"
    /\ metric' = [metric EXCEPT ![parameters[p]] =
                    format_float(calculate_metric(predictions[p]))]
    /\ pc' = [pc EXCEPT ![p] = "while"]
    /\ UNCHANGED <<output, lock, fail, hist, locals>>
    /\ UNCHANGED config

\* main.py:141-145  ExperimentRun(parameters=..., predictions=..., name=name)
ExperimentRun(parameters_, predictions_, name_) ==
    [parameters |-> parameters_, predictions |-> predictions_, name |-> name_]

\* results in the order of the assignments, not of their names.
RECURSIVE in_enumeration_order(_)
in_enumeration_order(runs) ==
    IF runs = {} THEN <<>>
    ELSE LET first == CHOOSE r \in runs :
                        \A s \in runs : r.parameters <= s.parameters
         IN  <<first>> \o in_enumeration_order(runs \ {first})

\* main.py:147  results.sort(key=lambda x: x.name); the names are distinct,
\* so the order the param files were listed in does not show in the result.
RECURSIVE sort_by_name(_)
sort_by_name(runs) ==
    IF runs = {} THEN <<>>
    ELSE LET first == CHOOSE r \in runs : \A s \in runs : r.name <= s.name
         IN  <<first>> \o sort_by_name(runs \ {first})

\* main.py:126-147  build the reporting collection from the valid param files
\* and sort it by display name
visualize(p) ==
    /\ pc[p] = "visualize"
    /\ LET param_files == get_valid_param_files(FALSE) IN
        /\ warned' = [warned EXCEPT ![p] = Cardinality(param_files) < num_trials]
        /\ IF \E e \in param_files : output[e] \in {NoFile, Partial}
           THEN /\ Propagate(p, JSONDecodeError)
                /\ UNCHANGED results
           ELSE /\ results' = [results EXCEPT ![p] = sort_by_name(
                                {ExperimentRun(e, output[e], parameters_to_name(e)) :
                                    e \in param_files})]
                /\ pc' = [pc EXCEPT ![p] = "done"]
                /\ exc' = [exc EXCEPT ![p] = None]
                /\ Forget(p)
    /\ UNCHANGED <<fs, hist, parameters>>
    /\ UNCHANGED config

\* ------------------------------------------------------ the environment

Running(p) == pc[p] \notin {"done", "raised", "terminated"}

\* The process is terminated between two statements; its files stay as they are.
Terminate(p) ==
    /\ Running(p)
    /\ pc' = [pc EXCEPT ![p] = "terminated"]
    /\ Forget(p)
    /\ UNCHANGED <<fs, hist, parameters, exc, results, warned>>
    /\ UNCHANGED config

Next ==
    \E p \in Procs :
        \/ chatbot_main(p)
        \/ while_is_complete(p)
        \/ driver_get_parameters(p)
        \/ mp_check(p)
        \/ mp_enter(p)
        \/ mp_backend(p)
        \/ mp_except(p)
        \/ mp_raise(p)
        \/ mp_open(p)
        \/ mp_dump(p)
        \/ mp_exit(p)
        \/ if_none(p)
        \/ eval(p)
        \/ eval_open(p)
        \/ eval_write(p)
        \/ visualize(p)
        \/ Terminate(p)

Spec == Init /\ [][Next]_vars

\* A step of p's own program; being terminated is not one.
Step(p) ==
    \/ chatbot_main(p)
    \/ while_is_complete(p)
    \/ driver_get_parameters(p)
    \/ mp_check(p)
    \/ mp_enter(p)
    \/ mp_backend(p)
    \/ mp_except(p)
    \/ mp_raise(p)
    \/ mp_open(p)
    \/ mp_dump(p)
    \/ mp_exit(p)
    \/ if_none(p)
    \/ eval(p)
    \/ eval_open(p)
    \/ eval_write(p)
    \/ visualize(p)

\* A process that is not terminated goes on with its next statement; every
\* statement ends, the backend call included (it returns or it raises).
FairSpec == Init /\ [][Next]_vars /\ \A p \in Procs : WF_vars(Step(p))

\* ------------------------------------- the search space (main.py:38-56)

\* search_space.Categorical / search_space.Constant (spec section 3)
Categorical(values) == [kind |-> "Categorical", values |-> values]
Constant(value) == [kind |-> "Constant", values |-> <<value>>]

\* The dimensions of a space, in their declared order; temperature stands
\* for the dimensions chatbot_main leaves as configured.
Dimensions == <<"model_preset", "prompt_preset", "temperature">>

\* chatbot_config.experiments[x]: either kind for each preset dimension.
Experiments ==
    [model_preset : {Categorical(<<"cfg_model">>), Constant("cfg_model")},
     prompt_preset : {Categorical(<<"cfg_prompt">>), Constant("cfg_prompt")},
     temperature : {Categorical(<<0, 1>>), Constant(0)}]

RECURSIVE SeqsUpTo(_, _)
SeqsUpTo(S, n) ==
    IF n = 0 THEN {<<>>}
    ELSE LET shorter == SeqsUpTo(S, n - 1)
         IN  shorter \cup {Append(q, x) : q \in shorter, x \in S}

\* The calls of chatbot_main: one to MaxSpaces experiments, the model and
\* prompt lists and the single model and prompt.
Args ==
    [experiments : SeqsUpTo(Experiments, MaxSpaces) \ {<<>>},
     models : {<<"m1">>, <<"m1", "m2">>},
     single_model : {"m1"},
     prompts : {<<"p1">>, <<"p1", "p2">>},
     single_prompt : {"p2"}]

\* main.py:41-53  override the preset dimensions of one setting
override(setting, a) ==
    [setting EXCEPT
        !.model_preset = IF @.kind = "Categorical" THEN Categorical(a.models)
                         ELSE Constant(a.single_model),
        !.prompt_preset = IF @.kind = "Categorical" THEN Categorical(a.prompts)
                          ELSE Constant(a.single_prompt)]

\* main.py:38-40, 54-56  my_space = CompositeSearchSpace(experiment_settings)
CompositeSearchSpace(a) ==
    [k \in DOMAIN a.experiments |-> override(a.experiments[k], a)]

\* SearchSpace.enumerate (spec 4.1): every combination of the dimensions
\* from the d-th on, the last-declared dimension varying fastest.
RECURSIVE cross_product(_, _)
cross_product(space, d) ==
    IF d > Len(Dimensions) THEN << <<>> >>
    ELSE LET values == space[Dimensions[d]].values
             rest == cross_product(space, d + 1)
         IN  [k \in 1..(Len(values) * Len(rest)) |->
                <<values[((k - 1) \div Len(rest)) + 1]>>
                    \o rest[((k - 1) % Len(rest)) + 1]]

\* The enumeration of a composite with the sub-spaces in reverse order.
RECURSIVE enumerate_last_declared_first(_)
enumerate_last_declared_first(spaces) ==
    IF spaces = <<>> THEN <<>>
    ELSE enumerate_last_declared_first(Tail(spaces))
            \o cross_product(Head(spaces), 1)

\* CompositeSearchSpace.enumerate (spec 4.1): the sub-spaces' enumerations
\* concatenated in declaration order.
RECURSIVE enumerate(_)
enumerate(spaces) ==
    IF spaces = <<>> THEN <<>>
    ELSE cross_product(Head(spaces), 1) \o enumerate(Tail(spaces))

\* chatbot_main is called with some arguments; nothing else has happened.
InitSpace ==
    /\ num_trials = 1
    /\ Idle
    /\ args \in Args
    /\ my_space = <<>>
    /\ enumerated = <<>>

\* main.py:38-56
build_my_space ==
    /\ my_space = <<>>
    /\ my_space' = CompositeSearchSpace(args)
    /\ UNCHANGED <<num_trials, args, enumerated, fs, pc, locals, hist>>

\* The optimizer enumerates my_space (main.py:85-86, :94).
enumerate_my_space ==
    /\ my_space # <<>>
    /\ enumerated = <<>>
    /\ enumerated' = enumerate(my_space)
    /\ UNCHANGED <<num_trials, args, my_space, fs, pc, locals, hist>>

NextSpace ==
    \/ build_my_space
    \/ enumerate_my_space

SpecSpace == InitSpace /\ [][NextSpace]_vars

\* =================================================================== claims

\* The statements of make_predictions between acquiring the lock and the
\* end of the with block.
InWith == {"mp_backend", "mp_except", "mp_raise", "mp_open", "mp_dump", "mp_exit"}

Producers(e) == {p \in Procs : pc[p] \in InWith /\ parameters[p] = e}

\* p takes a step out of the statement at label l (termination aside).
Leaves(p, l) == pc[p] = l /\ pc'[p] # l /\ pc'[p] # "terminated"

\* C1 -- at-most-one producer.  Of the processes that call make_predictions
\* for one entry whose output artifact is absent, one acquires the lock and
\* invokes the backend and no other does: at any moment at most one process
\* is inside the with block of an entry, and it holds the entry's lock
\* marker; no process acquires the lock of an entry the backend was already
\* invoked for; a process that reaches CacheLock while the marker exists
\* gets None, invokes no backend, writes no artifact, and the driver goes
\* back to the head of the loop with its cursor past that assignment.
C1_Exclusive ==
    \A e \in Entries :
        /\ Cardinality(Producers(e)) <= 1
        /\ \A p \in Producers(e) : cache_lock[p] /\ lock[e]

C1_Skip ==
    \A p \in Procs :
        /\ Leaves(p, "mp_enter") /\ lock[parameters[p]] =>
              /\ pc'[p] = "if_none" /\ predictions'[p] = None
              /\ ~cache_lock'[p]
              /\ fs' = fs /\ calls' = calls /\ writes' = writes
        /\ Leaves(p, "if_none") /\ predictions[p] = None =>
              /\ pc'[p] = "while" /\ cursor'[p] > parameters[p]
              /\ fs' = fs /\ calls' = calls /\ writes' = writes

C1_OneAcquires ==
    \A p \in Procs :
        Leaves(p, "mp_enter") /\ pc'[p] = "mp_backend" =>
            calls[parameters[p]] = 0

C1_AtMostOneProducer ==
    [](C1_Exclusive) /\ [][C1_Skip /\ C1_OneAcquires]_vars

\* C2 -- an output artifact is never mutated once written: for every entry
\* the output file is opened for writing at most once, a written output
\* never changes, and the backend is invoked at most once for an entry whose
\* attempt returned predictions.
C2_WriteOnce ==
    \A e \in Entries :
        /\ writes[e] <= 1
        /\ returned[e] => calls[e] <= 1

C2_NeverMutated ==
    \A e \in Entries : output[e] \in Preds => output'[e] = output[e]

C2_WrittenAtMostOnce == [](C2_WriteOnce) /\ [][C2_NeverMutated]_vars

\* C3 -- exactly one of {output artifact, failure artifact} after a terminal
\* attempt, never both: no entry ever has both; an attempt that returned
\* predictions leaves the output and no failure marker; an attempt that
\* raised the backend failure leaves the failure marker and no output.
C3_NeverBoth == \A e \in Entries : ~(Completed(e) /\ Failed(e))

C3_Terminal ==
    \A p \in Procs :
        /\ pc[p] = "if_none" /\ predictions[p] # None =>
              Completed(parameters[p]) /\ ~Failed(parameters[p])
        /\ pc[p] = "raised" /\ exc[p] \in BackendErrors =>
              Failed(parameters[p]) /\ ~Completed(parameters[p])

C3_ExactlyOneArtifact == C3_NeverBoth /\ C3_Terminal

\* C4 -- resumability.  Every assignment get_parameters returns is, at that
\* moment, neither completed nor locked in progress nor failed, and it is the
\* first such assignment at or after the cursor (so a fresh optimizer on
\* {A completed, B in progress, C absent} returns C first); and a run never
\* claims the lock of, or invokes the backend for, an entry that was already
\* completed, in progress or failed when the run began.
C4_Returned ==
    \A p \in Procs :
        Leaves(p, "get_parameters") /\ parameters'[p] # NoParams =>
            /\ parameters'[p] \in Entries
            /\ parameters'[p] >= cursor[p]
            /\ output[parameters'[p]] = NoFile
            /\ ~lock[parameters'[p]]
            /\ fail[parameters'[p]] = NoFile
            /\ \A e \in cursor[p]..(parameters'[p] - 1) :
                  output[e] # NoFile \/ lock[e] \/ fail[e] # NoFile

C4_NoRedo ==
    \A p \in Procs :
        pc[p] \in InWith \cup {"mp_check", "mp_enter"} =>
            parameters[p] \notin snapshot[p]

C4_Resumable == [](C4_NoRedo) /\ [][C4_Returned]_vars

\* A run began on {1 completed, 2 in progress, 3 absent} and its first
\* get_parameters returned 3.
C4_Witness ==
    \E p \in Procs :
        /\ snapshot[p] = {1, 2}
        /\ output[1] \in Preds /\ ~lock[1] /\ fail[1] = NoFile
        /\ output[2] = NoFile /\ lock[2] /\ fail[2] = NoFile
        /\ pc[p] = "mp_check" /\ parameters[p] = 3 /\ cursor[p] = 4
        /\ calls[3] = 0

\* C5 -- on backend failure the failure marker holding the traceback of the
\* caught exception is on disk before the exception propagates; the same
\* exception then leaves make_predictions and the driver (it is neither
\* swallowed nor retried: no further backend call), and the failed attempt
\* writes no output artifact.
C5_Persisted ==
    \A p \in Procs :
        /\ pc[p] = "mp_except" => exc[p] \in BackendErrors
        /\ pc[p] = "mp_raise" =>
              /\ exc[p] \in BackendErrors
              /\ fail[parameters[p]] = format_exc(exc[p])
        /\ pc[p] = "raised" /\ exc[p] \in BackendErrors =>
              fail[parameters[p]] = format_exc(exc[p])

C5_Reraised ==
    \A p \in Procs :
        /\ Leaves(p, "mp_backend") /\ pc'[p] # "mp_open" =>
              /\ pc'[p] = "mp_except" /\ exc'[p] \in BackendErrors
              /\ output' = output /\ writes' = writes
        /\ Leaves(p, "mp_except") =>
              /\ pc'[p] = "mp_raise" /\ exc'[p] = exc[p]
              /\ fail'[parameters[p]] = format_exc(exc[p])
              /\ output' = output /\ writes' = writes /\ calls' = calls
        /\ Leaves(p, "mp_raise") =>
              /\ pc'[p] = "raised" /\ exc'[p] = exc[p]
              /\ fail' = fail
              /\ output' = output /\ writes' = writes /\ calls' = calls

C5_FailurePersistedThenRaised == [](C5_Persisted) /\ [][C5_Reraised]_vars

\* The backend raised, the marker was written, and the exception has left
\* the driver; the entry has no output.
C5_Witness ==
    \E p \in Procs :
        /\ pc[p] = "raised" /\ exc[p] = "BackendError"
        /\ fail[parameters[p]] = "Traceback: BackendError"
        /\ output[parameters[p]] = NoFile
        /\ calls[parameters[p]] = 1

\* C6 -- failure terminality.  A failure marker, once written, stays; no
\* process is ever about to invoke the backend for an entry that has one, no
\* backend call is made for it afterwards, get_parameters never returns it,
\* and no reporting collection built afterwards contains it.
ReportedEntries(p) == {results[p][i].parameters : i \in DOMAIN results[p]}

C6_NoBackend ==
    \A p \in Procs : pc[p] = "mp_backend" => ~Failed(parameters[p])

C6_Terminal ==
    /\ \A e \in Entries :
          Failed(e) => fail'[e] = fail[e] /\ calls'[e] = calls[e]
    /\ \A p \in Procs :
          /\ Leaves(p, "get_parameters") /\ parameters'[p] # NoParams =>
                ~Failed(parameters'[p])
          /\ Leaves(p, "visualize") /\ pc'[p] = "done" =>
                \A e \in Entries : Failed(e) => e \notin ReportedEntries(p)'

C7_Hit ==
    \A p \in Procs :
        Leaves(p, "mp_check") /\ output[parameters[p]] # NoFile =>
            /\ pc'[p] = "if_none"
            /\ predictions'[p] = output[parameters[p]]
            /\ predictions'[p] \in Preds
            /\ cache_lock'[p] = cache_lock[p]
            /\ fs' = fs /\ calls' = calls /\ writes' = writes

C7_CacheHit == [][C7_Hit]_vars

\* C8 -- completion is defined solely by output-artifact presence.  An entry
\* with only a lock marker is not reported as completed; an entry whose
\* output artifact exists is reported as completed by the reporting step and
\* is served as a cache hit by make_predictions, lock marker or not.
C8_Served ==
    \A p \in Procs :
        Leaves(p, "mp_check") =>
            LET e == parameters[p] IN
            /\ output[e] # NoFile =>
                  pc'[p] = "if_none" /\ predictions'[p] = output[e]
            /\ output[e] = NoFile => pc'[p] = "mp_enter"

C8_Reported ==
    \A p \in Procs :
        Leaves(p, "visualize") =>
            /\ pc'[p] = "done"
            /\ \A e \in Entries :
                  e \in ReportedEntries(p)' <=> output[e] # NoFile

C8_CompletionByOutput == [][C8_Served /\ C8_Reported]_vars

\* C9 -- crash safety.  An output artifact exists only for an entry whose
\* backend call returned; and when a process terminates inside
\* make_predictions before it has written the output, and no other attempt
\* has written one, the entry is left without an output artifact (at most
\* the stale lock stays).
BeforeOutputWritten ==
    {"mp_check", "mp_enter", "mp_backend", "mp_except", "mp_raise", "mp_open",
     "mp_dump"}

OwnWrites(p) == IF pc[p] = "mp_dump" THEN 1 ELSE 0

C9_OutputIsProduced ==
    \A e \in Entries : output[e] # NoFile => returned[e]

C9_TerminatedBeforeWrite ==
    \A p \in Procs :
        /\ pc[p] \in BeforeOutputWritten /\ pc'[p] = "terminated"
        /\ writes[parameters[p]] = OwnWrites(p)
        => /\ output'[parameters[p]] = NoFile
           /\ lock' = lock

C9_CrashSafe == [](C9_OutputIsProduced) /\ [][C9_TerminatedBeforeWrite]_vars

\* C10 -- is_complete(results_root, include_in_progress) is true iff the
\* number of claimed entries (completed, plus in-progress when
\* include_in_progress) meets or exceeds the trial budget or no untried
\* assignment is left.  The loop at main.py:92 asks with
\* include_in_progress=True and ends exactly then; main.py:127-133 counts
\* with include_in_progress=False and warns exactly when the completed
\* entries alone are fewer than the budget.
EntryState(e) ==
    IF fail[e] # NoFile THEN "failed"
    ELSE IF output[e] # NoFile THEN "completed"
    ELSE IF lock[e] THEN "in-progress"
    ELSE "absent"

ClaimedCount(include_in_progress) ==
    Cardinality({e \in Entries :
                    \/ EntryState(e) = "completed"
                    \/ include_in_progress /\ EntryState(e) = "in-progress"})

NoneUntried(p) == \A e \in Entries : e >= cursor[p] => EntryState(e) # "absent"

C10_Loop ==
    \A p \in Procs :
        /\ Leaves(p, "while") =>
              /\ pc'[p] \in {"visualize", "get_parameters"}
              /\ pc'[p] = "visualize" <=>
                    ClaimedCount(TRUE) >= num_trials \/ NoneUntried(p)
        /\ Leaves(p, "visualize") =>
              (warned'[p] <=> ClaimedCount(FALSE) < num_trials)

Solo(p) == \A q \in Procs \ {p} : pc[q] = "main"

\* The entries the backend was invoked for.
Attempted == {e \in Entries : calls[e] > 0}

\* C11 -- trial budget in a single-process sweep from an empty cache.  With
\* more assignments than the budget N, the attempted entries are always the
\* first k of the enumeration for some k <= N and each is attempted once;
\* get_parameters hands out assignment k+1 <= N after k attempts; the loop
\* condition is_complete becomes true exactly when the first N outputs are
\* written, and at that moment exactly 1..N were attempted (no (N+1)-th).
C11_Prefix ==
    \A p \in Procs :
        Solo(p) /\ num_trials < NumEntries =>
            /\ \E k \in 0..num_trials : Attempted = 1..k
            /\ \A e \in Entries : calls[e] <= 1
            /\ pc[p] \in InWith \cup {"mp_check", "mp_enter"} =>
                  parameters[p] <= num_trials

C11_Budget ==
    \A p \in Procs :
        Solo(p) /\ num_trials < NumEntries =>
            /\ Leaves(p, "while") =>
                  /\ pc'[p] = "visualize" <=>
                        {e \in Entries : output[e] \in Preds} = 1..num_trials
                  /\ pc'[p] = "visualize" => Attempted = 1..num_trials
            /\ Leaves(p, "get_parameters") =>
                  /\ parameters'[p] = Cardinality(Attempted) + 1
                  /\ parameters'[p] <= num_trials

C11_TrialBudget == [](C11_Prefix) /\ [][C11_Budget]_vars

\* Budget 2 of 3: the only process attempted 1 and 2, in that order, left
\* the loop and reported them; 3 was never attempted.
C11_Witness ==
    \E p \in Procs :
        /\ Solo(p) /\ num_trials = 2
        /\ pc[p] = "done"
        /\ calls[1] = 1 /\ calls[2] = 1 /\ calls[3] = 0
        /\ ReportedEntries(p) = {1, 2}
        /\ output[3] = NoFile /\ ~lock[3]

\* C12 -- determinism.  What get_parameters returns, and where it leaves the
\* cursor, is a function of the instance's cursor and of the cache on disk
\* alone: an instance at the same cursor as another, asked on the same cache
\* snapshot, returns the same assignment (or None) and advances to the same
\* cursor, so two instances that begin alike walk through the same remaining
\* assignments in the same order; and that order is the enumeration order
\* (each call returns the first untried assignment at or after the cursor).
C12_SameNext ==
    \A p \in Procs :
        Leaves(p, "get_parameters") =>
            /\ \A q \in Procs :
                  cursor[q] = cursor[p] => parameters'[p] = get_parameters(q)
            /\ parameters'[p] # NoParams =>
                  /\ cursor'[p] = parameters'[p] + 1
                  /\ \A e \in Untried(p) : parameters'[p] <= e
            /\ parameters'[p] = NoParams => pc'[p] = "visualize"

C13_Sorted ==
    \A p \in Procs :
        \A i, j \in DOMAIN results[p] :
            i < j => results[p][i].name <= results[p][j].name

C13_Built ==
    \A p \in Procs :
        Leaves(p, "visualize") /\ pc'[p] = "done" =>
            /\ \A i \in DOMAIN results'[p] :
                  LET run == results'[p][i] IN
                  /\ run.parameters \in Entries
                  /\ output[run.parameters] \in Preds
                  /\ run.predictions = output[run.parameters]
                  /\ run.name = parameters_to_name(run.parameters)
                  /\ \A j \in DOMAIN results'[p] :
                        results'[p][j].parameters = run.parameters => j = i
            /\ \A e \in Entries :
                  output[e] = NoFile => e \notin ReportedEntries(p)'

C13_OnlyCompletedSorted == [](C13_Sorted) /\ [][C13_Built]_vars

\* A collection of the completed entries 1 and 2, with 2 (whose name sorts
\* first) ahead of 1, built while entry 3 was only locked in progress.
C13_Witness ==
    \E p \in Procs :
        /\ pc[p] = "done"
        /\ Len(results[p]) = 2
        /\ results[p][1].parameters = 2 /\ results[p][2].parameters = 1
        /\ lock[3] /\ output[3] = NoFile /\ fail[3] = NoFile

\* The number of assignments of one sub-space: the product of its dimensions.
Size(space) ==
    Len(space.model_preset.values) * Len(space.prompt_preset.values)
        * Len(space.temperature.values)

RECURSIVE Offset(_, _)
Offset(spaces, k) == IF k = 1 THEN 0 ELSE Offset(spaces, k - 1) + Size(spaces[k - 1])

C15_Released ==
    \A p \in Procs :
        /\ Leaves(p, "mp_exit") =>
              /\ cache_lock[p] /\ lock[parameters[p]]
              /\ ~lock'[parameters[p]]
              /\ pc'[p] = "if_none" /\ predictions'[p] \in Preds
        /\ Leaves(p, "mp_raise") =>
              /\ cache_lock[p] /\ lock[parameters[p]]
              /\ ~lock'[parameters[p]]
              /\ pc'[p] = "raised"
        /\ Leaves(p, "mp_enter") /\ pc'[p] # "mp_backend" =>
              lock' = lock /\ ~cache_lock'[p]

C15_OwnerOnly ==
    \A e \in Entries :
        lock[e] /\ ~lock'[e] =>
            \E p \in Procs :
                /\ pc[p] \in {"mp_exit", "mp_raise"} /\ pc'[p] # pc[p]
                /\ parameters[p] = e /\ cache_lock[p]
                /\ \A f \in Entries \ {e} : lock'[f] = lock[f]

C15_ScopedRelease == [][C15_Released /\ C15_OwnerOnly]_vars

\* One call returned its predictions and another raised the backend failure;
\* each had acquired the lock of its entry, and neither marker is left.
C15_Witness ==
    \E p, q \in Procs :
        /\ pc[p] = "if_none" /\ predictions[p] \in Preds
        /\ calls[parameters[p]] = 1 /\ ~lock[parameters[p]]
        /\ pc[q] = "raised" /\ exc[q] \in BackendErrors
        /\ calls[parameters[q]] = 1 /\ ~lock[parameters[q]]
        /\ parameters[p] # parameters[q]

\* The lock marker of e exists and the process that created it is gone.
Stale(e) ==
    /\ lock[e]
    /\ ~\E p \in Procs : cache_lock[p] /\ parameters[p] = e

\* C16 -- a stale lock is never healed.  Once an entry has a lock marker
\* whose creator has terminated and has no output artifact, every step of
\* every process leaves it so: the marker stays, the backend is not invoked
\* for the entry, its output is not written; and each make_predictions call
\* on it passes the cache check, is refused the lock and returns None.
C16_Stuck ==
    \A e \in Entries :
        Stale(e) /\ output[e] = NoFile =>
            /\ Stale(e)' /\ output'[e] = NoFile
            /\ calls'[e] = calls[e] /\ writes'[e] = writes[e]
            /\ \A p \in Procs :
                  /\ parameters[p] = e /\ Leaves(p, "mp_check") =>
                        pc'[p] = "mp_enter"
                  /\ parameters[p] = e /\ Leaves(p, "mp_enter") =>
                        pc'[p] = "if_none" /\ predictions'[p] = None
                  /\ Leaves(p, "get_parameters") => parameters'[p] # e

C16_StaleLockStays == [][C16_Stuck]_vars

\* The creator of the lock of e terminated before writing the output, and
\* another process has just been refused the lock by make_predictions.
C16_Witness ==
    \E p, q \in Procs : \E e \in Entries :
        /\ pc[p] = "terminated" /\ parameters[p] = e
        /\ Stale(e) /\ output[e] = NoFile /\ fail[e] = NoFile
        /\ pc[q] = "if_none" /\ parameters[q] = e /\ predictions[q] = None

\* The statements of the prediction loop, main.py:92-124.
LoopStatements ==
    {"while", "get_parameters", "mp_check", "mp_enter", "mp_backend",
     "mp_except", "mp_raise", "mp_open", "mp_dump", "mp_exit", "if_none",
     "eval", "eval_open", "eval_write"}

InLoop(p) == pc[p] \in LoopStatements

\* C17 -- the sweep loop terminates.  When every statement of a live process
\* ends (each backend call returns or raises), a driver process that is in
\* the prediction loop eventually is no longer in it: the space is
\* exhausted, the budget is reached, or an exception has propagated; also
\* when the entries left are held by the other process or by a stale lock
\* and every make_predictions call returns None.  (A process is outside the
\* loop before it begins, so "always eventually outside" says that no
\* process stays in the loop for ever.)
C17_LoopTerminates == \A p \in Procs : []<>(~InLoop(p))

\* With the budget as large as the space and entry 1 under a stale lock, the
\* other process went through the loop, filled the rest and left it.
C17_Witness ==
    \E p, q \in Procs :
        /\ num_trials = NumEntries
        /\ pc[p] = "terminated" /\ Stale(1) /\ output[1] = NoFile
        /\ pc[q] = "done" /\ 1 \in snapshot[q]
        /\ \A e \in Entries \ {1} : output[e] \in Preds
        /\ ReportedEntries(q) = Entries \ {1}

\* C18 -- a metric record exists only for completed entries.  In every
\* reachable state an entry whose .eval file exists has its output file; a
\* step that creates or changes a .eval file is taken by a process whose
\* make_predictions call on that entry returned predictions, never after a
\* skipped call (None) or a failed one (the exception left the driver).
C18_MetricHasOutput ==
    \A e \in Entries : metric[e] # NoFile => output[e] # NoFile

C18_Writer ==
    /\ \A e \in Entries :
          metric'[e] # metric[e] =>
              \E p \in Procs :
                  /\ pc[p] \in {"eval_open", "eval_write"} /\ pc'[p] # pc[p]
                  /\ parameters[p] = e
                  /\ predictions[p] \in Preds
                  /\ output[e] # NoFile
    /\ \A p \in Procs :
          /\ Leaves(p, "if_none") /\ predictions[p] = None =>
                pc'[p] = "while" /\ metric' = metric
          /\ pc[p] = "raised" => pc'[p] = "raised"

C18_MetricOnlyForCompleted == [](C18_MetricHasOutput) /\ [][C18_Writer]_vars

\* One entry was produced and scored; another failed and has no metric, and
\* its failure ended the run of the process that attempted it.
C18_Witness ==
    \E e, f \in Entries : \E q \in Procs :
        /\ output[e] \in Preds /\ metric[e] \in {"0.0", "1.0"}
        /\ Failed(f) /\ output[f] = NoFile /\ metric[f] = NoFile
        /\ pc[q] = "raised" /\ parameters[q] = f

\* C19 -- the metric is memoized: when the .eval file of an entry exists the
\* driver reads it and leaves it alone, so a .eval file is opened for
\* writing only when none exists and, once written, never changes.
C19_ReadNotRewritten ==
    \A p \in Procs :
        /\ Leaves(p, "eval") /\ metric[parameters[p]] \notin {NoFile, Partial} =>
              pc'[p] = "while" /\ metric' = metric
        /\ Leaves(p, "eval_open") => metric[parameters[p]] = NoFile

C19_WrittenOnce ==
    \A e \in Entries :
        metric[e] \notin {NoFile, Partial} => metric'[e] = metric[e]

C19_MetricMemoized == [][C19_ReadNotRewritten /\ C19_WrittenOnce]_vars

\* The entries that count as claimed: completed (the output artifact exists)
\* or locked in progress.
Claimed == {e \in Entries : Completed(e) \/ InProgress(e)}

====
